---- MODULE Spec2Model ----
(***************************************************************************)
(* Model of src/util/parse_proxy_v2.c: the PROXY protocol v2 header        *)
(* decoder of hitch.  One run of main() is a walk of `pc` through the      *)
(* checks of main() and the loops of print_extensions().  Byte k of the C  *)
(* array proxy_header is proxy_header[k + 1] here.                         *)
(***************************************************************************)
EXTENDS Integers, Sequences, FiniteSets

VARIABLES proxy_header, n, pc, address_len, additional_len,
          i, j, l, out, status, err, reads, run, prev

vars == <<proxy_header, n, pc, address_len, additional_len,
          i, j, l, out, status, err, reads, run, prev>>

(***************************************************************************)
(* Bounds of the model.                                                    *)
(***************************************************************************)
\* number of TLV chunks concatenated into an extension area
MaxEntries == 2
\* number of decode runs over the same bytes
MaxRuns == 2

(***************************************************************************)
(* Constants of proxyv2.h.                                                 *)
(***************************************************************************)
PP2_SIG == <<13, 10, 13, 10, 0, 13, 10, 81, 85, 73, 84, 10>>
PP2_VERSION == 32
PP2_CMD_LOCAL == 0
PP2_CMD_PROXY == 1
PP2_FAM_UNSPEC == 0
PP2_FAM_INET == 16
PP2_FAM_INET6 == 32
PP2_FAM_UNIX == 48
PP2_TRANS_UNSPEC == 0
PP2_TRANS_STREAM == 1
PP2_TRANS_DGRAM == 2
PP2_TYPE_ALPN == 1
PP2_TYPE_AUTHORITY == 2
PP2_TYPE_SSL == 32
PP2_SUBTYPE_SSL_VERSION == 33
PP2_SUBTYPE_SSL_CIPHER == 35

\* b & PP2_VERSION_MASK (0xF0) and b & PP2_CMD_MASK (0x0F)
VersionOf(b) == (b \div 16) * 16
CmdOf(b) == b % 16

\* the literal "PROXY TCP" of the strncmp in main
V1_PREFIX == <<80, 82, 79, 88, 89, 32, 84, 67, 80>>

(***************************************************************************)
(* Memory.  Bytes [0, n) are the bytes read; main stores 0 at index n;     *)
(* whatever lies behind index n was never written by the program, so a     *)
(* read there yields an indeterminate value g.                             *)
(***************************************************************************)
Indeterminate == {0, 33}

Mem(k, g) ==
    IF k < n THEN proxy_header[k + 1]
    ELSE IF k = n THEN 0
    ELSE g

\* the pointer proxy_header + 16 + address_len handed to print_extensions
ExtBase == 16 + address_len
extensions_len == additional_len - address_len
Ext(k, g) == Mem(ExtBase + k, g)

\* (p[k] << 8) + p[k + 1]
BE16(hi, lo) == hi * 256 + lo
\* ntohl of the four bytes at p, held as its high and low 16-bit halves
BE32(b0, b1, b2, b3) == <<BE16(b0, b1), BE16(b2, b3)>>
\* *((char *)p) passed to printf: the byte sign-extended to int
CharAsInt(b) == IF b >= 128 THEN b - 256 ELSE b

\* the count of bytes printf("%.*s", len, extensions + k) takes: it stops at
\* a NUL or after len bytes.  Behind index n the content is indeterminate;
\* the model follows such a string for one byte only.
RECURSIVE TextLen(_, _, _)
TextLen(k, len, g) ==
    IF len <= 0 \/ Ext(k, g) = 0 THEN 0
    ELSE IF ExtBase + k > n THEN 1
    ELSE 1 + TextLen(k + 1, len - 1, g)

Text(k, len, g) == [x \in 1..TextLen(k, len, g) |-> Ext(k + x - 1, g)]

\* the indices of the extension slice that printf("%.*s") reads: the bytes
\* it prints and the NUL that stops it
TextReads(k, len, g) ==
    LET c == TextLen(k, len, g)
    IN  IF c < len THEN k..(k + c) ELSE k..(k + c - 1)

(***************************************************************************)
(* Inputs: the buffers a single read can leave in proxy_header.            *)
(***************************************************************************)
V1_TCP4 == V1_PREFIX \o <<52, 32, 49>>
V1_OTHER == <<80, 82, 79, 88, 89, 32, 85, 78, 75, 78, 79, 87>>
BAD_SIG == <<13, 10, 13, 10, 0, 13, 10, 81, 85, 73, 84, 11>>
Prefixes == {PP2_SIG, V1_TCP4, V1_OTHER, BAD_SIG}

Bytes12 == {33, 32, 34, 17, 16}
Bytes13 == {0, 17, 18, 33, 34, 49, 50, 19}
AddrSizes == {12, 36, 216}

\* an address block whose bytes are pairwise different
AddrPattern(size) == [k \in 1..size |-> ((k - 1) * 5 + 3) % 256]
\* 10.0.0.1 -> 10.0.0.2, ports 8080 -> 80
AddrScenarioA == <<10, 0, 0, 1, 10, 0, 0, 2, 31, 144, 0, 80>>
\* an extension of unknown type 99 followed by the ALPN extension "h2"
ExtUnknownH2 == <<99, 0, 1, 122, 1, 0, 2, 104, 50>>

Header(prefix, b12, b13, alen) ==
    prefix \o <<b12, b13, alen \div 256, alen % 256>>

\* headers with every combination of signature, version/command and
\* family/transport, a length field that is too short, exact or covers two
\* extensions, and a buffer that is cut short, exact or has a byte to spare
LenDeltas == {-4, 0, 9}
Cuts == {-5, -1, 0, 1}

HeaderBuf(prefix, b12, b13, size, d, cut) ==
    LET full == Header(prefix, b12, b13, size + d) \o AddrPattern(size) \o ExtUnknownH2
        want == 16 + size + (IF d > 0 THEN d ELSE 0) + cut
    IN  IF want <= Len(full) THEN SubSeq(full, 1, want) ELSE full \o <<84>>

HeaderBufs ==
    { HeaderBuf(p, b12, b13, s, d, c) :
        p \in Prefixes, b12 \in Bytes12, b13 \in Bytes13,
        s \in AddrSizes, d \in LenDeltas, c \in Cuts }

\* reads of fewer than 16 bytes
ShortLens == {0, 9, 15}
ShortBufs ==
    { SubSeq(Header(p, 33, 17, 12), 1, k) : p \in Prefixes, k \in ShortLens }

\* extension areas: up to MaxEntries chunks, each a type, a declared length
\* and a payload whose real length may differ from the declared one
ExtTypes == {PP2_TYPE_ALPN, PP2_TYPE_AUTHORITY, PP2_TYPE_SSL, 99}
TextPayloads == {<<104, 50>>}
\* SSL payloads with their declared lengths: client and verify alone; a
\* version sub-extension declared 3 short, exactly and 1 long; a cipher
\* sub-extension whose own length runs past the payload
SslCases == { << <<1, 0, 0, 0, 0>>, 5 >>,
              << <<1, 0, 0, 0, 0, 33, 0, 1, 84>>, 6 >>,
              << <<1, 0, 0, 0, 0, 33, 0, 1, 84>>, 9 >>,
              << <<1, 0, 0, 0, 0, 33, 0, 1, 84>>, 10 >>,
              << <<1, 0, 0, 0, 0, 35, 0, 5, 65>>, 9 >> }
DeclDeltas == {-3, 0, 1}
DeclLens(p) == {0} \cup { Len(p) + e : e \in {x \in DeclDeltas : Len(p) + x > 0} }
Chunk(t, d, p) == <<t, d \div 256, d % 256>> \o p
\* a cut-off entry header, and a length with a high byte
Fragments == { <<1, 0>>, <<1, 1, 2, 104, 50>> }

Chunks ==
    UNION { { Chunk(t, d, p) : d \in DeclLens(p) } :
                    t \in ExtTypes, p \in TextPayloads }
    \cup { Chunk(PP2_TYPE_SSL, c[2], c[1]) : c \in SslCases }
    \cup Fragments

RECURSIVE Flatten(_)
Flatten(s) == IF s = <<>> THEN <<>> ELSE Head(s) \o Flatten(Tail(s))

ExtAreas ==
    { Flatten(s) : s \in UNION { [1..k -> Chunks] : k \in 0..MaxEntries } }

ExtBuf(b13, addr, area, spare) ==
    Header(PP2_SIG, 33, b13, Len(addr) + Len(area)) \o addr \o area \o spare

ExtBufs ==
    { ExtBuf(17, AddrScenarioA, a, sp) : a \in ExtAreas, sp \in {<<>>, <<84>>} }

Buffers == HeaderBufs \cup ShortBufs \cup ExtBufs

\* nothing printed yet
NoAddr == [kind |-> "none", src |-> <<>>, dst |-> <<>>, sport |-> -1, dport |-> -1]
NoOut == [proto |-> "none", unsupported |-> FALSE, addr |-> NoAddr,
          exts |-> <<>>, errdata |-> <<>>]

Start(buf, len, r, p) ==
    /\ proxy_header = buf
    /\ n = len
    /\ pc = "read"
    /\ address_len = 0
    /\ additional_len = 0
    /\ i = 0
    /\ j = 0
    /\ l = 0
    /\ out = NoOut
    /\ status = -1
    /\ err = "none"
    /\ reads = {}
    /\ run = r
    /\ prev = p

\* the state when read() or recv() has returned: n bytes, or -1 and nothing
Init ==
    \/ \E buf \in Buffers : Start(buf, Len(buf), 1, <<>>)
    \/ Start(<<>>, -1, 1, <<>>)

(***************************************************************************)
(* main(), lines 230-325.                                                  *)
(***************************************************************************)
\* printf("ERROR: ..."); return (1);
Fail(kind) ==
    /\ pc' = "done"
    /\ status' = 1
    /\ err' = kind

\* return (0);
Succeed ==
    /\ pc' = "done"
    /\ status' = 0
    /\ err' = "none"

Goto(next) ==
    /\ pc' = next
    /\ UNCHANGED <<status, err>>

\* if (n < 16) ...; proxy_header[n] = '\0';
ReadCheck ==
    /\ pc = "read"
    /\ IF n < 16 THEN Fail("ReadTooShort") ELSE Goto("sig")
    /\ UNCHANGED <<proxy_header, n, address_len, additional_len,
                   i, j, l, out, reads, run, prev>>

\* strncmp("PROXY TCP", proxy_header, 9) == 0
IsV1 == SubSeq(proxy_header, 1, 9) = V1_PREFIX
\* memcmp(PP2_SIG, proxy_header, sizeof PP2_SIG) == 0
IsV2 == SubSeq(proxy_header, 1, 12) = PP2_SIG

\* the signature compared before the v1 text
CheckSignature_SignatureFirst ==
    /\ pc = "sig"
    /\ IF ~IsV2 THEN Fail("BadSignature")
       ELSE IF IsV1 THEN Fail("UnsupportedV1Format")
       ELSE Goto("version")
    /\ UNCHANGED <<proxy_header, n, address_len, additional_len,
                   i, j, l, out, reads, run, prev>>

CheckSignature ==
    /\ pc = "sig"
    /\ IF IsV1 THEN Fail("UnsupportedV1Format")
       ELSE IF ~IsV2 THEN Fail("BadSignature")
       ELSE Goto("version")
    /\ UNCHANGED <<proxy_header, n, address_len, additional_len,
                   i, j, l, out, reads, run, prev>>

\* the version nibble not looked at
CheckVersion_Skipped ==
    /\ pc = "version"
    /\ Goto("command")
    /\ UNCHANGED <<proxy_header, n, address_len, additional_len,
                   i, j, l, out, reads, run, prev>>

CheckVersion ==
    /\ pc = "version"
    /\ IF VersionOf(Mem(12, 0)) # PP2_VERSION THEN Fail("VersionMismatch")
       ELSE Goto("command")
    /\ UNCHANGED <<proxy_header, n, address_len, additional_len,
                   i, j, l, out, reads, run, prev>>

CheckCommand ==
    /\ pc = "command"
    /\ IF CmdOf(Mem(12, 0)) = PP2_CMD_LOCAL THEN Fail("UnsupportedCommandLocal")
       ELSE IF CmdOf(Mem(12, 0)) = PP2_CMD_PROXY THEN Goto("family")
       ELSE Fail("IllegalCommand")
    /\ UNCHANGED <<proxy_header, n, address_len, additional_len,
                   i, j, l, out, reads, run, prev>>

\* UNIX stream flagged like the datagram transports
FamilyTable_UnixStreamUnsupported(b) ==
    IF b = PP2_TRANS_STREAM + PP2_FAM_INET THEN <<"TCP over IPv4", 12, FALSE>>
    ELSE IF b = PP2_TRANS_DGRAM + PP2_FAM_INET THEN <<"UDP over IPv4", 12, TRUE>>
    ELSE IF b = PP2_TRANS_STREAM + PP2_FAM_INET6 THEN <<"TCP over IPv6", 36, FALSE>>
    ELSE IF b = PP2_TRANS_DGRAM + PP2_FAM_INET6 THEN <<"UDP over IPv6", 36, TRUE>>
    ELSE IF b = PP2_FAM_UNIX + PP2_TRANS_STREAM THEN <<"UNIX stream", 216, TRUE>>
    ELSE IF b = PP2_FAM_UNIX + PP2_TRANS_DGRAM THEN <<"UNIX datagram", 216, TRUE>>
    ELSE <<>>

\* the switch on proxy_header[13]: <<protocol line, address_len, whether
\* "Protocol unsupported in hitch" is printed>>, or no entry when the case
\* returns 1
FamilyTable(b) ==
    IF b = PP2_TRANS_STREAM + PP2_FAM_INET THEN <<"TCP over IPv4", 12, FALSE>>
    ELSE IF b = PP2_TRANS_DGRAM + PP2_FAM_INET THEN <<"UDP over IPv4", 12, TRUE>>
    ELSE IF b = PP2_TRANS_STREAM + PP2_FAM_INET6 THEN <<"TCP over IPv6", 36, FALSE>>
    ELSE IF b = PP2_TRANS_DGRAM + PP2_FAM_INET6 THEN <<"UDP over IPv6", 36, TRUE>>
    ELSE IF b = PP2_FAM_UNIX + PP2_TRANS_STREAM THEN <<"UNIX stream", 216, FALSE>>
    ELSE IF b = PP2_FAM_UNIX + PP2_TRANS_DGRAM THEN <<"UNIX datagram", 216, TRUE>>
    ELSE <<>>

CheckFamily ==
    /\ pc = "family"
    /\ LET b == Mem(13, 0)
           row == FamilyTable(b)
       IN  IF b = PP2_TRANS_UNSPEC + PP2_FAM_UNSPEC
           THEN /\ Fail("UnspecifiedProtocol")
                /\ UNCHANGED <<address_len, out>>
           ELSE IF row = <<>>
           THEN /\ Fail("IllegalFamilyTransport")
                /\ UNCHANGED <<address_len, out>>
           ELSE /\ Goto("length")
                /\ address_len' = row[2]
                /\ out' = [out EXCEPT !.proto = row[1], !.unsupported = row[3]]
    /\ UNCHANGED <<proxy_header, n, additional_len, i, j, l, reads, run, prev>>

\* the comparison with the number of bytes read left out
CheckLength_NoBufferCheck ==
    /\ pc = "length"
    /\ additional_len' = BE16(Mem(14, 0), Mem(15, 0))
    /\ IF additional_len' < address_len THEN Fail("LengthTooShortForAddress")
       ELSE Goto("addr")
    /\ UNCHANGED <<proxy_header, n, address_len, i, j, l, out, reads, run, prev>>

CheckLength ==
    /\ pc = "length"
    /\ additional_len' = BE16(Mem(14, 0), Mem(15, 0))
    /\ IF additional_len' < address_len THEN Fail("LengthTooShortForAddress")
       ELSE IF additional_len' + 16 > n THEN Fail("LengthExceedsBuffer")
       ELSE Goto("addr")
    /\ UNCHANGED <<proxy_header, n, address_len, i, j, l, out, reads, run, prev>>

\* inet_ntop: the dotted quad names the four bytes, the IPv6 text names the
\* eight 16-bit groups; with these families and 256-byte buffers it does
\* not return NULL
inet_ntop(len, p) ==
    IF len = 4 THEN [k \in 1..4 |-> Mem(p + k - 1, 0)]
    ELSE [k \in 1..8 |-> BE16(Mem(p + 2 * (k - 1), 0), Mem(p + 2 * (k - 1) + 1, 0))]

\* the destination port taken one byte early
print_addr_with_ports_PortOffByOne(len, p) ==
    [ kind  |-> IF len = 4 THEN "inet" ELSE "inet6",
      src   |-> inet_ntop(len, p),
      dst   |-> inet_ntop(len, p + len),
      sport |-> BE16(Mem(p + 2 * len, 0), Mem(p + 2 * len + 1, 0)),
      dport |-> BE16(Mem(p + 2 * len + 1, 0), Mem(p + 2 * len + 2, 0)) ]

print_addr_with_ports(len, p) ==
    [ kind  |-> IF len = 4 THEN "inet" ELSE "inet6",
      src   |-> inet_ntop(len, p),
      dst   |-> inet_ntop(len, p + len),
      sport |-> BE16(Mem(p + 2 * len, 0), Mem(p + 2 * len + 1, 0)),
      dport |-> BE16(Mem(p + 2 * len + 2, 0), Mem(p + 2 * len + 3, 0)) ]

\* "Printing of UNIX socket addresses not implemented."
UnixNotImplemented == [NoAddr EXCEPT !.kind = "unix"]

DecodeAddress ==
    /\ pc = "addr"
    /\ out' = [out EXCEPT !.addr =
                 IF address_len = 12 THEN print_addr_with_ports(4, 16)
                 ELSE IF address_len = 36 THEN print_addr_with_ports(16, 16)
                 ELSE UnixNotImplemented]
    /\ Goto("exts")
    /\ UNCHANGED <<proxy_header, n, address_len, additional_len,
                   i, j, l, reads, run, prev>>

\* if (address_len < additional_len) return (print_extensions(...)); return (0);
EnterExtensions ==
    /\ pc = "exts"
    /\ IF address_len < additional_len
       THEN /\ Goto("ext_loop")
            /\ i' = 0
       ELSE /\ Succeed
            /\ UNCHANGED i
    /\ UNCHANGED <<proxy_header, n, address_len, additional_len,
                   j, l, out, reads, run, prev>>

(***************************************************************************)
(* print_extensions(), lines 155-212.  `reads` holds the indices of the    *)
(* extension slice that the last step read.                                *)
(***************************************************************************)
\* one printed extension
Entry(kind, type, len) ==
    [kind |-> kind, type |-> type, len |-> len, text |-> <<>>,
     client |-> 0, verify |-> <<0, 0>>, subs |-> <<>>]

\* return (extensions_error(extensions, extensions_len)); with the cursor at
extensions_error(at) ==
    /\ Fail("ExtensionBoundsError")
    /\ out' = [out EXCEPT !.errdata = [k \in 1..extensions_len |-> Ext(k - 1, 0)]]
    /\ reads' = 0..(extensions_len - 1)
    /\ i' = at
    /\ UNCHANGED <<j, l>>

\* if (i > extensions_len - 4)
TooFewLeft(at) == at > extensions_len - 4

\* l < 0 in place of l <= 0
BadLength_ZeroAccepted(at, len) == len < 0 \/ at + len > extensions_len

\* if (l <= 0 || i + l > extensions_len), after i += 3
BadLength(at, len) == len <= 0 \/ at + len > extensions_len

\* i += l in place of i += l - 1
Advance_WholeLength(at, len) == at + len + 1

\* i += l - 1; and the i++ of the for loop
Advance(at, len) == at + (len - 1) + 1

\* one pass of the for loop up to the switch; ALPN, AUTHORITY and unknown
\* types finish the pass, SSL goes on to its sub-extensions
ExtNext ==
    /\ pc = "ext_loop"
    /\ i < extensions_len
    /\ IF TooFewLeft(i) THEN extensions_error(i)
       ELSE LET type == Ext(i, 0)
                len  == BE16(Ext(i + 1, 0), Ext(i + 2, 0))
                at   == i + 3
            IN  IF BadLength(at, len) THEN extensions_error(at)
                ELSE IF type \in {PP2_TYPE_ALPN, PP2_TYPE_AUTHORITY}
                THEN /\ out' = [out EXCEPT !.exts = Append(@,
                                  [Entry(IF type = PP2_TYPE_ALPN THEN "ALPN"
                                         ELSE "AUTHORITY", type, len)
                                     EXCEPT !.text = Text(at, len, 0)])]
                     /\ reads' = {i, i + 1, i + 2} \cup TextReads(at, len, 0)
                     /\ i' = Advance(at, len)
                     /\ Goto("ext_loop")
                     /\ UNCHANGED <<j, l>>
                ELSE IF type = PP2_TYPE_SSL
                THEN \E g \in [1..4 -> Indeterminate] :
                     /\ out' = [out EXCEPT !.exts = Append(@,
                                  [Entry("SSL", type, len) EXCEPT
                                     !.client = CharAsInt(Ext(at, 0)),
                                     !.verify = BE32(Ext(at + 1, g[1]),
                                                     Ext(at + 2, g[2]),
                                                     Ext(at + 3, g[3]),
                                                     Ext(at + 4, g[4]))])]
                     /\ reads' = {i, i + 1, i + 2} \cup (at..(at + 4))
                     /\ i' = at
                     /\ l' = len
                     /\ j' = at + 5
                     /\ Goto("ssl_sub")
                ELSE /\ out' = [out EXCEPT !.exts = Append(@,
                                  Entry("unknown", type, len))]
                     /\ reads' = {i, i + 1, i + 2}
                     /\ i' = Advance(at, len)
                     /\ Goto("ext_loop")
                     /\ UNCHANGED <<j, l>>
    /\ UNCHANGED <<proxy_header, n, address_len, additional_len, run, prev>>

\* one pass of while (j < i + l)
SslSub ==
    /\ pc = "ssl_sub"
    /\ j < i + l
    /\ \E g \in [1..3 -> Indeterminate] :
         LET subtype == Ext(j, g[1])
             sublen  == BE16(Ext(j + 1, g[2]), Ext(j + 2, g[3]))
             known   == subtype \in {PP2_SUBTYPE_SSL_VERSION, PP2_SUBTYPE_SSL_CIPHER}
         IN  /\ out' = IF known
                       THEN [out EXCEPT !.exts[Len(out.exts)].subs = Append(@,
                               [subtype |-> subtype, sublen |-> sublen,
                                text |-> Text(j + 3, sublen, g[1])])]
                       ELSE out
             /\ reads' = {j, j + 1, j + 2} \cup
                           (IF known THEN TextReads(j + 3, sublen, g[1]) ELSE {})
             /\ j' = (j + 3) + sublen
    /\ Goto("ssl_sub")
    /\ UNCHANGED <<proxy_header, n, address_len, additional_len, i, l, run, prev>>

\* the while loop is over: break; i += l - 1; i++
SslEnd ==
    /\ pc = "ssl_sub"
    /\ ~(j < i + l)
    /\ i' = Advance(i, l)
    /\ reads' = {}
    /\ Goto("ext_loop")
    /\ UNCHANGED <<proxy_header, n, address_len, additional_len, j, l, out, run, prev>>

\* the for loop is over: lines 207-211
ExtExit ==
    /\ pc = "ext_loop"
    /\ ~(i < extensions_len)
    /\ IF i # extensions_len THEN Fail("ExtensionLengthMismatch") ELSE Succeed
    /\ reads' = {}
    /\ UNCHANGED <<proxy_header, n, address_len, additional_len, i, j, l, out, run, prev>>

(***************************************************************************)
(* The tool is run again on the same bytes.                                *)
(***************************************************************************)
Result == <<status, err, out>>

Rerun ==
    /\ pc = "done"
    /\ run < MaxRuns
    /\ proxy_header' = proxy_header
    /\ n' = n
    /\ pc' = "read"
    /\ address_len' = 0
    /\ additional_len' = 0
    /\ i' = 0
    /\ j' = 0
    /\ l' = 0
    /\ out' = NoOut
    /\ status' = -1
    /\ err' = "none"
    /\ reads' = {}
    /\ run' = run + 1
    /\ prev' = Result

Next ==
    \/ ReadCheck
    \/ CheckSignature
    \/ CheckVersion
    \/ CheckCommand
    \/ CheckFamily
    \/ CheckLength
    \/ DecodeAddress
    \/ EnterExtensions
    \/ ExtNext
    \/ SslSub
    \/ SslEnd
    \/ ExtExit
    \/ Rerun

Spec == Init /\ [][Next]_vars

(***************************************************************************)
(* The claims.  B(k) is byte k of the buffer that was read, and the        *)
(* predicates below are stated on those bytes, not on the decoder's        *)
(* variables.                                                              *)
(***************************************************************************)
B(k) == proxy_header[k + 1]

\* the 16 + address block bytes the length check looks at
SizeOf(b) ==
    IF b \in {17, 18} THEN 12
    ELSE IF b \in {33, 34} THEN 36
    ELSE IF b \in {49, 50} THEN 216
    ELSE 0
LenField == 256 * B(14) + B(15)

\* signature, version 2, command PROXY, a known family/transport and a
\* length field that covers the address block and fits the buffer
HeaderOk ==
    /\ n >= 16
    /\ \A k \in 0..11 : B(k) = PP2_SIG[k + 1]
    /\ B(12) = 33
    /\ B(13) \in {17, 18, 33, 34, 49, 50}
ValidHeader ==
    /\ HeaderOk
    /\ LenField >= SizeOf(B(13))
    /\ 16 + LenField <= n
AfterAddress == pc \in {"exts", "ext_loop", "ssl_sub", "done"}

\* print_extensions has been entered
InExtensions == pc \in {"ext_loop", "ssl_sub"}
ExtensionsRan ==
    /\ pc = "done"
    /\ ValidHeader
    /\ LenField > SizeOf(B(13))

\* C1: for every header that passes the validator, print_extensions either
\* consumes exactly extensions_len bytes or fails with a bounds/mismatch
\* error, and never reads a byte of the extension slice at an index
\* >= extensions_len.
C1_NoReadPastExtensions ==
    /\ (InExtensions \/ ExtensionsRan) =>
          \A k \in reads : k >= 0 /\ k < extensions_len
    /\ ExtensionsRan =>
          \/ status = 0 /\ i = extensions_len
          \/ status = 1 /\ err \in {"ExtensionBoundsError", "ExtensionLengthMismatch"}

\* C9: when client_flag and verify_result of an SSL extension are read, the
\* five bytes [i, i+5) lie inside the extension's payload [i, i+l), i.e.
\* l >= 5; and every read of the nested cursor lies inside [i+5, i+l).
C9_SslReadsInsidePayload ==
    pc = "ssl_sub" =>
       IF (i - 3) \in reads
       THEN /\ l >= 5
            /\ \A k \in reads : k >= i - 3 /\ k < i + l
       ELSE \A k \in reads : k >= i + 5 /\ k < i + l

\* C8: two runs over the same n and the same bytes [0, n) end with the same
\* status and the same decoded fields.
C8_SameBytesSameResult ==
    (run = 2 /\ pc = "done") => Result = prev

\* C2: for a valid header the address block comes from fixed offsets behind
\* buffer offset 16: IPv4 source = bytes [0,4), destination = [4,8), ports
\* = big-endian 16 bits at 8 and 10; IPv6 source = [0,16), destination =
\* [16,32), ports at 32 and 34; ports lie in 0..65535, and a length field
\* equal to the address-block size gives success with no extensions.
ScenarioA == Header(PP2_SIG, 33, 17, 12) \o AddrScenarioA
C2_AddressFromFixedOffsets ==
    /\ (AfterAddress /\ ValidHeader /\ B(13) \in {17, 18}) =>
          /\ out.addr.kind = "inet"
          /\ out.addr.src = <<B(16), B(17), B(18), B(19)>>
          /\ out.addr.dst = <<B(20), B(21), B(22), B(23)>>
          /\ out.addr.sport = 256 * B(24) + B(25)
          /\ out.addr.dport = 256 * B(26) + B(27)
    /\ (AfterAddress /\ ValidHeader /\ B(13) \in {33, 34}) =>
          /\ out.addr.kind = "inet6"
          /\ out.addr.src = [k \in 1..8 |-> 256 * B(14 + 2 * k) + B(15 + 2 * k)]
          /\ out.addr.dst = [k \in 1..8 |-> 256 * B(30 + 2 * k) + B(31 + 2 * k)]
          /\ out.addr.sport = 256 * B(48) + B(49)
          /\ out.addr.dport = 256 * B(50) + B(51)
    /\ out.addr.kind \in {"inet", "inet6"} =>
          out.addr.sport \in 0..65535 /\ out.addr.dport \in 0..65535
    /\ (pc = "done" /\ ValidHeader /\ LenField = SizeOf(B(13))) =>
          status = 0 /\ out.exts = <<>>
    /\ (pc = "done" /\ proxy_header = ScenarioA) =>
          /\ status = 0
          /\ out.addr = [kind |-> "inet", src |-> <<10, 0, 0, 1>>,
                         dst |-> <<10, 0, 0, 2>>, sport |-> 8080, dport |-> 80]
          /\ out.exts = <<>>

C2_Witness ==
    /\ pc = "done"
    /\ ValidHeader
    /\ B(13) = 33
    /\ LenField = 36
    /\ out.addr.kind = "inet6"
    /\ out.addr.sport # out.addr.dport

\* C3: the length field is validated before any address or extension byte
\* is read: too short for the address block is reported first, else
\* exceeding the buffer; so whenever the address or the extension decoder
\* runs, address_len <= additional_len and 16 + additional_len <= n.
C3_LengthValidatedFirst ==
    /\ (pc \in {"addr", "exts", "ext_loop", "ssl_sub"}
          \/ out.addr # NoAddr \/ out.exts # <<>> \/ reads # {}) =>
          /\ address_len = SizeOf(B(13))
          /\ additional_len = LenField
          /\ address_len <= additional_len
          /\ 16 + additional_len <= n
    /\ (pc = "done" /\ HeaderOk /\ LenField < SizeOf(B(13))) =>
          status = 1 /\ err = "LengthTooShortForAddress" /\ out.addr = NoAddr
    /\ (pc = "done" /\ HeaderOk /\ LenField >= SizeOf(B(13)) /\ 16 + LenField > n) =>
          status = 1 /\ err = "LengthExceedsBuffer" /\ out.addr = NoAddr

C3_Witness ==
    /\ pc = "ext_loop"
    /\ out.addr.kind = "inet6"
    /\ address_len < additional_len
    /\ 16 + additional_len < n

\* the extension area as the length field delimits it
ExtStart == 16 + SizeOf(B(13))
ExtLen == LenField - SizeOf(B(13))
DeclType(at) == B(ExtStart + at)
DeclLen(at) == 256 * B(ExtStart + at + 1) + B(ExtStart + at + 2)
\* fewer than 4 bytes left, a zero length, or a payload behind the area
Malformed(at) ==
    \/ at > ExtLen - 4
    \/ DeclLen(at) = 0
    \/ at + 3 + DeclLen(at) > ExtLen
KindOf(t) ==
    IF t = 1 THEN "ALPN" ELSE IF t = 2 THEN "AUTHORITY"
    ELSE IF t = 32 THEN "SSL" ELSE "unknown"
\* the offset of the k-th entry when the entries printed so far lie back to back
RECURSIVE Off(_)
Off(k) == IF k <= 1 THEN 0 ELSE Off(k - 1) + 3 + out.exts[k - 1].len
EntriesMatchBytes ==
    \A k \in 1..Len(out.exts) :
        /\ out.exts[k].type = DeclType(Off(k))
        /\ out.exts[k].len = DeclLen(Off(k))
        /\ out.exts[k].kind = KindOf(DeclType(Off(k)))
HeaderErrors ==
    {"ReadTooShort", "UnsupportedV1Format", "BadSignature", "VersionMismatch",
     "UnsupportedCommandLocal", "IllegalCommand", "UnspecifiedProtocol",
     "IllegalFamilyTransport", "LengthTooShortForAddress", "LengthExceedsBuffer"}

C5_ExtensionBounds ==
    [][ (pc = "ext_loop" /\ i < extensions_len) =>
          IF Malformed(i)
          THEN /\ pc' = "done"
               /\ status' = 1
               /\ err' = "ExtensionBoundsError"
               /\ out'.errdata = [k \in 1..ExtLen |-> B(ExtStart + k - 1)]
               /\ out'.exts = out.exts
          ELSE /\ pc' # "done"
               /\ status' = -1
               /\ err' = "none"
               /\ Len(out'.exts) = Len(out.exts) + 1
               /\ out'.exts[Len(out'.exts)].len = DeclLen(i) ]_vars

C5_Witness ==
    /\ pc = "done"
    /\ err = "ExtensionBoundsError"
    /\ Len(out.exts) = 1
    /\ i = Off(2) + 3
    /\ DeclLen(Off(2)) = 0
    /\ out.errdata # <<>>

\* C6 as stated: a buffer whose first 9 bytes are "PROXY TCP" fails with
\* UnsupportedV1Format whatever its length.
StartsWithV1 ==
    /\ Len(proxy_header) >= 9
    /\ \A k \in 0..8 : B(k) = V1_PREFIX[k + 1]
C6_V1RejectedAtAnyLength ==
    (pc = "done" /\ StartsWithV1) => err = "UnsupportedV1Format"

\* C6, amended: a buffer of at least 16 bytes whose first 9 bytes are
\* "PROXY TCP" fails with UnsupportedV1Format whatever follows the prefix;
\* a shorter one fails with ReadTooShort.
C6_V1Rejected ==
    /\ (pc = "done" /\ StartsWithV1 /\ n >= 16) =>
          status = 1 /\ err = "UnsupportedV1Format" /\ out = NoOut
    /\ (pc = "done" /\ StartsWithV1 /\ n < 16) =>
          status = 1 /\ err = "ReadTooShort" /\ out = NoOut

C6_Witness ==
    /\ pc = "done"
    /\ StartsWithV1
    /\ n > 16
    /\ B(12) = 33
    /\ err = "UnsupportedV1Format"

\* C10: the ExtensionLengthMismatch outcome is unreachable: whenever the
\* top-level loop is left normally the cursor equals extensions_len, because
\* every accepted entry moves the cursor by exactly 3 + len, whatever its
\* type and whatever the lengths of SSL sub-extensions.
C10_NoLengthMismatch ==
    /\ err # "ExtensionLengthMismatch"
    /\ pc = "ext_loop" =>
          /\ extensions_len >= 1
          /\ i <= extensions_len
          /\ i = Off(Len(out.exts) + 1)
    /\ (ExtensionsRan /\ status = 0) => i = extensions_len

C10_Witness ==
    /\ pc = "done"
    /\ status = 0
    /\ i = extensions_len
    /\ Len(out.exts) = 2
    /\ out.exts[1].kind = "SSL"
    /\ Len(out.exts[1].subs) = 1
    /\ out.exts[1].subs[1].sublen # out.exts[1].len - 8

\* the error of the earliest failing check, in the order of the checks
FirstError ==
    IF n < 16 THEN "ReadTooShort"
    ELSE IF \A k \in 0..8 : B(k) = V1_PREFIX[k + 1] THEN "UnsupportedV1Format"
    ELSE IF \E k \in 0..11 : B(k) # PP2_SIG[k + 1] THEN "BadSignature"
    ELSE IF B(12) \div 16 # 2 THEN "VersionMismatch"
    ELSE IF B(12) % 16 = 0 THEN "UnsupportedCommandLocal"
    ELSE IF B(12) % 16 # 1 THEN "IllegalCommand"
    ELSE IF B(13) = 0 THEN "UnspecifiedProtocol"
    ELSE IF B(13) \notin {17, 18, 33, 34, 49, 50} THEN "IllegalFamilyTransport"
    ELSE IF LenField < SizeOf(B(13)) THEN "LengthTooShortForAddress"
    ELSE IF 16 + LenField > n THEN "LengthExceedsBuffer"
    ELSE "none"

\* the position in the pipeline: Unvalidated (0, 1), SignatureOk (2, 3),
\* VersionCommandOk (4), FamilyTransportOk (5), LengthOk (6),
\* AddressDecoded (7, 8), and the terminal states (9)
Rank(p) ==
    CASE p = "read" -> 0
      [] p = "sig" -> 1
      [] p = "version" -> 2
      [] p = "command" -> 3
      [] p = "family" -> 4
      [] p = "length" -> 5
      [] p = "addr" -> 6
      [] p = "exts" -> 7
      [] p \in {"ext_loop", "ssl_sub"} -> 8
      [] p = "done" -> 9

\* C7: a run moves only forward through the pipeline and revisits no
\* state, it can always take a step until it is in a terminal state, which
\* is success or failure and not both, and the error reported is that of
\* the earliest failing check; e.g. a correct signature with a version
\* nibble other than 2 gives VersionMismatch.
C7_LinearFailFast ==
    /\ [][ run' = run =>
             /\ \/ Rank(pc') > Rank(pc)
                \/ /\ Rank(pc') = 8
                   /\ Rank(pc) = 8
                   /\ i' > i \/ (i' = i /\ j' > j)
             /\ pc' = "done" =>
                   /\ status' \in {0, 1}
                   /\ (status' = 0) = (err' = "none")
                   /\ IF FirstError' # "none" THEN err' = FirstError'
                      ELSE err' \in {"none", "ExtensionBoundsError"}
             /\ pc' # "done" => status' = -1 /\ err' = "none" ]_vars
    /\ [](pc # "done" => ENABLED Next)

C7_Witness ==
    /\ pc = "done"
    /\ err = "VersionMismatch"
    /\ B(12) = 16
    /\ B(13) = 19
    /\ 16 + LenField > n

====
